---- MODULE Spec2Model ----
(***************************************************************************)
(* Neural firewall: PermissionGate and ThreatDetector of                   *)
(* backend/app/core/ai_firewall.py together with the route handlers of     *)
(* backend/app/api/routes that drive them.                                 *)
(*                                                                         *)
(* Floating point values are modelled by integers (1.0 -> 1, 0.0 -> 0).    *)
(* datetime.now() is modelled as a wall clock that never runs backwards    *)
(* but may return the same value to two consecutive reads.                 *)
(***************************************************************************)
EXTENDS Integers, Sequences, FiniteSets, TLC

\* ---------------------------------------------------------------- bounds
MaxAudit == 2
MaxThreats == 2
MaxClock == 1
TicksPerSecond == 2

\* ------------------------------------------------------------ input sets
\* PermissionType of schemas.py
PermissionType == {"motor_intent", "focus_level", "emotional_state", "full_spectrum"}

\* application ids and display names used by callers
AppIds == {"vr-arena", "demo_app"}
AppNames == {"VR Training Arena", "Demo App"}

\* config.py settings; levels and epsilons are in tenths
DEFAULT_PRIVACY_LEVEL == 5
DEFAULT_EPSILON == 10
DEFAULT_DELTA == "0.00001"

\* callers that share the global permission_gate
Threads == {"t1", "t2"}
Idle == [pc |-> "idle"]

\* intent strings produced by the classifier
IntentType == {"intentional", "subconscious", "neutral"}

\* field names of the data handed to filter_data, with one value per field
DataFields == {"delta", "theta", "alpha", "beta", "gamma", "beta_alpha_ratio", "motor_intent"}
FieldValue == [f \in DataFields |->
                 CASE f = "delta" -> 11 [] f = "theta" -> 12 [] f = "alpha" -> 13
                   [] f = "beta" -> 14 [] f = "gamma" -> 15
                   [] f = "beta_alpha_ratio" -> 16 [] OTHER -> 17]
DataKeySets == { DataFields,
                 {"delta", "theta", "alpha", "beta", "gamma"},
                 {"delta", "theta", "alpha", "beta", "gamma", "beta_alpha_ratio"},
                 {"theta", "gamma"},
                 {} }
DataInputs == { [f \in K |-> FieldValue[f]] : K \in DataKeySets }

\* PermissionGate.permissions: app_id -> [app_name, granted]
VARIABLE permissions
\* PermissionGate.audit_log
VARIABLE audit_log
\* ThreatDetector.threat_log
VARIABLE threat_log
\* number of uuid4() values drawn so far
VARIABLE uuid_issued
\* latest value returned by datetime.now()
VARIABLE clock
\* startup_event has run
VARIABLE started
\* the most recent call and what it returned
VARIABLE call
\* calls into the shared permission_gate that are in progress, per caller
VARIABLE threads
\* the IntentClassifier instance: its model_path and its model
VARIABLE intent_classifier
\* the privacy state the privacy routes report: level and epsilon in tenths
VARIABLE current_privacy_state

vars == <<permissions, audit_log, threat_log, uuid_issued, clock, started, call,
          threads, intent_classifier, current_privacy_state>>

\* ------------------------------------------------------------- timestamps
\* datetime.isoformat(): the fractional part is omitted when it is zero
isoformat(t) ==
    IF t % TicksPerSecond = 0
    THEN <<t \div TicksPerSecond>>
    ELSE <<t \div TicksPerSecond, t % TicksPerSecond>>

fromisoformat(s) ==
    IF Len(s) = 1 THEN s[1] * TicksPerSecond
    ELSE s[1] * TicksPerSecond + s[2]

\* datetime.now(): any instant not before the latest one observed
now == clock .. MaxClock

\* ------------------------------------------------------ python list helpers
\* x in lst
InList(x, lst) == \E i \in 1 .. Len(lst) : lst[i] = x

\* lst.pop() in place of lst.remove(x): delete the last element
ListRemove_pop(lst, x) == SubSeq(lst, 1, Len(lst) - 1)

\* lst.remove(x): delete the first occurrence
ListRemove(lst, x) ==
    LET i == CHOOSE k \in 1 .. Len(lst) :
                 lst[k] = x /\ \A j \in 1 .. (k - 1) : lst[j] # x
    IN  SubSeq(lst, 1, i - 1) \o SubSeq(lst, i + 1, Len(lst))

\* dict.get(key, default)
DictGet(d, key, default) == IF key \in DOMAIN d THEN d[key] ELSE default

\* d[key] = value
DictSet(d, key, value) ==
    [k \in (DOMAIN d) \cup {key} |-> IF k = key THEN value ELSE d[k]]

EmptyDict == [k \in {} |-> 0]

\* ---------------------------------------------------------- PermissionGate
AuditEntry(app_id, app_name, action, permission_type, t) ==
    [app_id |-> app_id, app_name |-> app_name, action |-> action,
     permission |-> permission_type, timestamp |-> isoformat(t)]

\* grant_permission writing the audit entry outside the membership test
GrantResult_always_log(perms, log, app_id, app_name, permission_type, t) ==
    LET p1 == IF app_id \notin DOMAIN perms
              THEN DictSet(perms, app_id, [app_name |-> app_name, granted |-> <<>>])
              ELSE perms
        p2 == IF ~InList(permission_type, p1[app_id].granted)
              THEN [p1 EXCEPT ![app_id].granted = Append(@, permission_type)]
              ELSE p1
    IN  <<p2, Append(log, AuditEntry(app_id, app_name, "grant", permission_type, t))>>

\* grant_permission logging the record's app_name, not the caller's
GrantResult_record_name(perms, log, app_id, app_name, permission_type, t) ==
    LET p1 == IF app_id \notin DOMAIN perms
              THEN DictSet(perms, app_id, [app_name |-> app_name, granted |-> <<>>])
              ELSE perms
    IN  IF ~InList(permission_type, p1[app_id].granted)
        THEN <<[p1 EXCEPT ![app_id].granted = Append(@, permission_type)],
               Append(log, AuditEntry(app_id, p1[app_id].app_name, "grant",
                                      permission_type, t))>>
        ELSE <<p1, log>>

\* state of the gate after grant_permission(app_id, app_name, permission_type)
\* run on gate state <<perms, log>> with datetime.now() returning t
GrantResult(perms, log, app_id, app_name, permission_type, t) ==
    LET p1 == IF app_id \notin DOMAIN perms
              THEN DictSet(perms, app_id, [app_name |-> app_name, granted |-> <<>>])
              ELSE perms
    IN  IF ~InList(permission_type, p1[app_id].granted)
        THEN <<[p1 EXCEPT ![app_id].granted = Append(@, permission_type)],
               Append(log, AuditEntry(app_id, app_name, "grant", permission_type, t))>>
        ELSE <<p1, log>>

\* revoke_permission creating a record for an app id it does not know
RevokeResult_creates_record(perms, log, app_id, permission_type, t) ==
    LET p1 == IF app_id \notin DOMAIN perms
              THEN DictSet(perms, app_id, [app_name |-> app_id, granted |-> <<>>])
              ELSE perms
    IN  IF InList(permission_type, p1[app_id].granted)
        THEN <<[p1 EXCEPT ![app_id].granted = ListRemove(@, permission_type)],
               Append(log, AuditEntry(app_id, p1[app_id].app_name, "revoke",
                                      permission_type, t))>>
        ELSE <<p1, log>>

\* revoke_permission writing the audit entry without removing the permission
RevokeResult_keeps_permission(perms, log, app_id, permission_type, t) ==
    IF app_id \in DOMAIN perms /\ InList(permission_type, perms[app_id].granted)
    THEN <<perms,
           Append(log, AuditEntry(app_id, perms[app_id].app_name, "revoke",
                                  permission_type, t))>>
    ELSE <<perms, log>>

\* revoke_permission deleting the record once its list is empty
RevokeResult_drops_empty(perms, log, app_id, permission_type, t) ==
    IF app_id \in DOMAIN perms /\ InList(permission_type, perms[app_id].granted)
    THEN <<IF Len(perms[app_id].granted) = 1
           THEN [b \in (DOMAIN perms) \ {app_id} |-> perms[b]]
           ELSE [perms EXCEPT ![app_id].granted = ListRemove(@, permission_type)],
           Append(log, AuditEntry(app_id, perms[app_id].app_name, "revoke",
                                  permission_type, t))>>
    ELSE <<perms, log>>

\* state of the gate after revoke_permission(app_id, permission_type)
RevokeResult(perms, log, app_id, permission_type, t) ==
    IF app_id \in DOMAIN perms /\ InList(permission_type, perms[app_id].granted)
    THEN <<[perms EXCEPT ![app_id].granted = ListRemove(@, permission_type)],
           Append(log, AuditEntry(app_id, perms[app_id].app_name, "revoke",
                                  permission_type, t))>>
    ELSE <<perms, log>>

check_permission(perms, app_id, permission_type) ==
    IF app_id \notin DOMAIN perms THEN FALSE
    ELSE InList(permission_type, perms[app_id].granted)

MotorIntentValue(intent) == IF intent = "intentional" THEN 1 ELSE 0

\* filter_data with the unknown-app branch also exposing beta
filter_data_unknown_beta(perms, app_id, data, intent) ==
    IF app_id \notin DOMAIN perms
    THEN DictSet([k \in {"motor_intent"} |-> MotorIntentValue(intent)],
                 "beta", DictGet(data, "beta", 0))
    ELSE
      LET granted == perms[app_id].granted
          f1 == IF InList("motor_intent", granted)
                THEN DictSet(DictSet(EmptyDict, "motor_intent", MotorIntentValue(intent)),
                             "beta", DictGet(data, "beta", 0))
                ELSE EmptyDict
          f2 == IF InList("focus_level", granted)
                THEN DictSet(f1, "beta_alpha_ratio", DictGet(data, "beta_alpha_ratio", 0))
                ELSE f1
          f3 == IF InList("emotional_state", granted)
                THEN DictSet(DictSet(f2, "theta", DictGet(data, "theta", 0)),
                             "alpha", DictGet(data, "alpha", 0))
                ELSE f2
      IN  IF InList("full_spectrum", granted) THEN data ELSE f3

\* filter_data with focus_level exposing alpha next to beta_alpha_ratio
filter_data_focus_alpha(perms, app_id, data, intent) ==
    IF app_id \notin DOMAIN perms
    THEN [k \in {"motor_intent"} |-> MotorIntentValue(intent)]
    ELSE
      LET granted == perms[app_id].granted
          f1 == IF InList("motor_intent", granted)
                THEN DictSet(DictSet(EmptyDict, "motor_intent", MotorIntentValue(intent)),
                             "beta", DictGet(data, "beta", 0))
                ELSE EmptyDict
          f2 == IF InList("focus_level", granted)
                THEN DictSet(DictSet(f1, "beta_alpha_ratio",
                                     DictGet(data, "beta_alpha_ratio", 0)),
                             "alpha", DictGet(data, "alpha", 0))
                ELSE f1
          f3 == IF InList("emotional_state", granted)
                THEN DictSet(DictSet(f2, "theta", DictGet(data, "theta", 0)),
                             "alpha", DictGet(data, "alpha", 0))
                ELSE f2
      IN  IF InList("full_spectrum", granted) THEN data ELSE f3

\* filter_data with full_spectrum merged into the additive result
\* (filtered.update(data)) instead of replacing it
filter_data_full_additive(perms, app_id, data, intent) ==
    IF app_id \notin DOMAIN perms
    THEN [k \in {"motor_intent"} |-> MotorIntentValue(intent)]
    ELSE
      LET granted == perms[app_id].granted
          f1 == IF InList("motor_intent", granted)
                THEN DictSet(DictSet(EmptyDict, "motor_intent", MotorIntentValue(intent)),
                             "beta", DictGet(data, "beta", 0))
                ELSE EmptyDict
          f2 == IF InList("focus_level", granted)
                THEN DictSet(f1, "beta_alpha_ratio", DictGet(data, "beta_alpha_ratio", 0))
                ELSE f1
          f3 == IF InList("emotional_state", granted)
                THEN DictSet(DictSet(f2, "theta", DictGet(data, "theta", 0)),
                             "alpha", DictGet(data, "alpha", 0))
                ELSE f2
      IN  IF InList("full_spectrum", granted)
          THEN [k \in (DOMAIN f3) \cup (DOMAIN data) |->
                   IF k \in DOMAIN data THEN data[k] ELSE f3[k]]
          ELSE f3
\* filter_data answering an app with an empty granted list as an unknown app
filter_data_empty_as_unknown(perms, app_id, data, intent) ==
    IF app_id \notin DOMAIN perms \/ perms[app_id].granted = <<>>
    THEN [k \in {"motor_intent"} |-> MotorIntentValue(intent)]
    ELSE
      LET granted == perms[app_id].granted
          f1 == IF InList("motor_intent", granted)
                THEN DictSet(DictSet(EmptyDict, "motor_intent", MotorIntentValue(intent)),
                             "beta", DictGet(data, "beta", 0))
                ELSE EmptyDict
          f2 == IF InList("focus_level", granted)
                THEN DictSet(f1, "beta_alpha_ratio", DictGet(data, "beta_alpha_ratio", 0))
                ELSE f1
          f3 == IF InList("emotional_state", granted)
                THEN DictSet(DictSet(f2, "theta", DictGet(data, "theta", 0)),
                             "alpha", DictGet(data, "alpha", 0))
                ELSE f2
      IN  IF InList("full_spectrum", granted) THEN data ELSE f3


filter_data(perms, app_id, data, intent) ==
    IF app_id \notin DOMAIN perms
    THEN [k \in {"motor_intent"} |-> MotorIntentValue(intent)]
    ELSE
      LET granted == perms[app_id].granted
          f0 == EmptyDict
          f1 == IF InList("motor_intent", granted)
                THEN DictSet(DictSet(f0, "motor_intent", MotorIntentValue(intent)),
                             "beta", DictGet(data, "beta", 0))
                ELSE f0
          f2 == IF InList("focus_level", granted)
                THEN DictSet(f1, "beta_alpha_ratio", DictGet(data, "beta_alpha_ratio", 0))
                ELSE f1
          f3 == IF InList("emotional_state", granted)
                THEN DictSet(DictSet(f2, "theta", DictGet(data, "theta", 0)),
                             "alpha", DictGet(data, "alpha", 0))
                ELSE f2
      IN  IF InList("full_spectrum", granted) THEN data ELSE f3

\* the route handler revoke_all_permissions: one revoke_permission per
\* permission of a copy of the granted list, the k-th with now() = ts[k]
RECURSIVE RevokeEach(_, _, _, _, _)
RevokeEach(perms, log, app_id, lst, ts) ==
    IF lst = <<>> THEN <<perms, log>>
    ELSE LET r == RevokeResult(perms, log, app_id, Head(lst), Head(ts))
         IN  RevokeEach(r[1], r[2], app_id, Tail(lst), Tail(ts))

\* n consecutive reads of datetime.now()
NowReads(n) ==
    { ts \in [1 .. n -> now] : \A i \in 1 .. (n - 1) : ts[i] <= ts[i + 1] }

\* --------------------------------------------------------- ThreatDetector
Threat(id, threat_type, level, description, app_id) ==
    [threat_id |-> id, threat_type |-> threat_type, level |-> level,
     description |-> description, app_id |-> app_id, mitigated |-> FALSE]

\* detect_threats with the frequency rule firing at 10 as well
ThreatRules_at_ten(app_id, requested_permissions, request_frequency, base) ==
    LET t1 == IF "full_spectrum" \in requested_permissions
              THEN <<Threat(base + 1, "excessive_permissions", "high",
                            <<"App", app_id, "requesting full neural spectrum access">>,
                            app_id)>>
              ELSE <<>>
        t2 == IF request_frequency >= 10
              THEN Append(t1, Threat(base + Len(t1) + 1, "data_harvesting", "medium",
                                     <<"Unusual request frequency:", request_frequency, "/sec">>,
                                     app_id))
              ELSE t1
        t3 == IF "emotional_state" \in requested_permissions
                 /\ "motor_intent" \notin requested_permissions
              THEN Append(t2, Threat(base + Len(t2) + 1, "emotional_surveillance", "critical",
                                     <<"App requesting emotional data without primary functionality need">>,
                                     app_id))
              ELSE t2
    IN  t3

\* detect_threats drawing one uuid4() per call and sharing it among the alerts
ThreatRules_shared_id(app_id, requested_permissions, request_frequency, base) ==
    LET t1 == IF "full_spectrum" \in requested_permissions
              THEN <<Threat(base + 1, "excessive_permissions", "high",
                            <<"App", app_id, "requesting full neural spectrum access">>,
                            app_id)>>
              ELSE <<>>
        t2 == IF request_frequency > 10
              THEN Append(t1, Threat(base + 1, "data_harvesting", "medium",
                                     <<"Unusual request frequency:", request_frequency, "/sec">>,
                                     app_id))
              ELSE t1
        t3 == IF "emotional_state" \in requested_permissions
                 /\ "motor_intent" \notin requested_permissions
              THEN Append(t2, Threat(base + 1, "emotional_surveillance", "critical",
                                     <<"App requesting emotional data without primary functionality need">>,
                                     app_id))
              ELSE t2
    IN  t3

\* the list `threats` built by the three rules of detect_threats, the k-th
\* uuid4() of the call returning base + k
ThreatRules(app_id, requested_permissions, request_frequency, base) ==
    LET t1 == IF "full_spectrum" \in requested_permissions
              THEN <<Threat(base + 1, "excessive_permissions", "high",
                            <<"App", app_id, "requesting full neural spectrum access">>,
                            app_id)>>
              ELSE <<>>
        t2 == IF request_frequency > 10
              THEN Append(t1, Threat(base + Len(t1) + 1, "data_harvesting", "medium",
                                     <<"Unusual request frequency:", request_frequency, "/sec">>,
                                     app_id))
              ELSE t1
        t3 == IF "emotional_state" \in requested_permissions
                 /\ "motor_intent" \notin requested_permissions
              THEN Append(t2, Threat(base + Len(t2) + 1, "emotional_surveillance", "critical",
                                     <<"App requesting emotional data without primary functionality need">>,
                                     app_id))
              ELSE t2
    IN  t3

\* threat['timestamp'] = datetime.now().isoformat() for each threat in turn
Stamp(threats, ts) ==
    [i \in 1 .. Len(threats) |->
        [threat_id |-> threats[i].threat_id, threat_type |-> threats[i].threat_type,
         level |-> threats[i].level, description |-> threats[i].description,
         app_id |-> threats[i].app_id, mitigated |-> threats[i].mitigated,
         timestamp |-> isoformat(ts[i])]]

\* ----------------------------------------------------------------- actions
\* gate operations that start a fresh threat log
GateFrame_resets_threat_log ==
    /\ threat_log' = <<>>
    /\ UNCHANGED <<uuid_issued, threads, intent_classifier, current_privacy_state>>

GateFrame ==
    UNCHANGED <<threat_log, uuid_issued, threads, intent_classifier, current_privacy_state>>
ThreatFrame ==
    UNCHANGED <<permissions, audit_log, started, threads, intent_classifier,
                current_privacy_state>>

\* audit entries written by request handlers (the startup seeds not counted)
RequestEntries == Len(audit_log) - (IF started THEN 3 ELSE 0)

\* POST /permissions/grant -> PermissionGate.grant_permission
grant_permission(app_id, app_name, permission_type) ==
    /\ RequestEntries < MaxAudit
    /\ \E t \in now :
         LET r == GrantResult(permissions, audit_log, app_id, app_name, permission_type, t)
         IN  /\ permissions' = r[1]
             /\ audit_log' = r[2]
             /\ clock' = IF r[2] # audit_log THEN t ELSE clock
    /\ call' = [op |-> "grant", app_id |-> app_id, app_name |-> app_name,
                permission |-> permission_type]
    /\ UNCHANGED started
    /\ GateFrame

\* POST /permissions/revoke -> PermissionGate.revoke_permission
revoke_permission(app_id, permission_type) ==
    /\ RequestEntries < MaxAudit
    /\ \E t \in now :
         LET r == RevokeResult(permissions, audit_log, app_id, permission_type, t)
         IN  /\ permissions' = r[1]
             /\ audit_log' = r[2]
             /\ clock' = IF r[2] # audit_log THEN t ELSE clock
    /\ call' = [op |-> "revoke", app_id |-> app_id, permission |-> permission_type]
    /\ UNCHANGED started
    /\ GateFrame

\* revoke-all looping over the live list instead of a copy: every removal
\* shifts the list under the iterator, which then skips the next permission
revoke_all_permissions_live_list(app_id) ==
    /\ RequestEntries < MaxAudit
    /\ IF app_id \in DOMAIN permissions
       THEN LET live == permissions[app_id].granted
                granted == [k \in 1 .. ((Len(live) + 1) \div 2) |-> live[2 * k - 1]]
            IN  \E ts \in NowReads(Len(granted)) :
                  LET r == RevokeEach(permissions, audit_log, app_id, granted, ts)
                  IN  /\ permissions' = r[1]
                      /\ audit_log' = r[2]
                      /\ clock' = IF Len(ts) > 0 THEN ts[Len(ts)] ELSE clock
       ELSE UNCHANGED <<permissions, audit_log, clock>>
    /\ call' = [op |-> "revoke_all", app_id |-> app_id]
    /\ UNCHANGED started
    /\ GateFrame

\* POST /permissions/revoke-all
revoke_all_permissions(app_id) ==
    /\ RequestEntries < MaxAudit
    /\ IF app_id \in DOMAIN permissions
       THEN LET granted == permissions[app_id].granted
            IN  \E ts \in NowReads(Len(granted)) :
                  LET r == RevokeEach(permissions, audit_log, app_id, granted, ts)
                  IN  /\ permissions' = r[1]
                      /\ audit_log' = r[2]
                      /\ clock' = IF Len(ts) > 0 THEN ts[Len(ts)] ELSE clock
       ELSE UNCHANGED <<permissions, audit_log, clock>>
    /\ call' = [op |-> "revoke_all", app_id |-> app_id]
    /\ UNCHANGED started
    /\ GateFrame

\* the three seeded demo grants of startup_event, the k-th with now() = ts[k]
SeedGrants(perms, log, ts) ==
    LET r1 == GrantResult(perms, log,
                          "vr-arena", "VR Training Arena", "motor_intent", ts[1])
        r2 == GrantResult(r1[1], r1[2],
                          "meditation-app", "Mindful Meditation", "emotional_state", ts[2])
    IN  GrantResult(r2[1], r2[2],
                    "mind-focus", "Productivity Tracker", "focus_level", ts[3])

\* main.py startup_event: the three seeded demo grants, before any request
startup_event ==
    /\ ~started
    /\ call.op = "none"
    /\ \E ts \in NowReads(3) :
         LET r3 == SeedGrants(permissions, audit_log, ts)
         IN  /\ permissions' = r3[1]
             /\ audit_log' = r3[2]
             /\ clock' = ts[3]
    /\ started' = TRUE
    /\ call' = [op |-> "startup"]
    /\ GateFrame

\* PermissionGate.check_permission
check(app_id, permission_type) ==
    /\ call' = [op |-> "check", app_id |-> app_id, permission |-> permission_type,
                result |-> check_permission(permissions, app_id, permission_type)]
    /\ UNCHANGED <<permissions, audit_log, clock, started>>
    /\ GateFrame

\* PermissionGate.filter_data
filter(app_id, data, intent) ==
    /\ call' = [op |-> "filter", app_id |-> app_id, data |-> data, intent |-> intent,
                result |-> filter_data(permissions, app_id, data, intent)]
    /\ UNCHANGED <<permissions, audit_log, clock, started>>
    /\ GateFrame

\* ThreatDetector.detect_threats
detect_threats(app_id, requested_permissions, request_frequency) ==
    /\ Len(threat_log) < MaxThreats
    /\ LET threats == ThreatRules(app_id, requested_permissions, request_frequency,
                                  uuid_issued)
       IN  \E ts \in NowReads(Len(threats)) :
             /\ threat_log' = threat_log \o Stamp(threats, ts)
             /\ uuid_issued' = uuid_issued + Len(threats)
             /\ clock' = IF Len(ts) > 0 THEN ts[Len(ts)] ELSE clock
             /\ call' = [op |-> "detect", app_id |-> app_id,
                         requested |-> requested_permissions,
                         frequency |-> request_frequency,
                         result |-> Stamp(threats, ts)]
    /\ ThreatFrame

\* simulate producing the alert of the requested threat type
simulate_threat_by_type(threat_type, app_id) ==
    /\ Len(threat_log) < MaxThreats
    /\ LET threats == IF threat_type = "emotional_surveillance"
                      THEN ThreatRules(app_id, {"emotional_state"}, 1, uuid_issued)
                      ELSE ThreatRules(app_id, {"full_spectrum"}, 15, uuid_issued)
       IN  \E ts \in NowReads(Len(threats)) :
             /\ threat_log' = threat_log \o Stamp(threats, ts)
             /\ uuid_issued' = uuid_issued + Len(threats)
             /\ clock' = IF Len(ts) > 0 THEN ts[Len(ts)] ELSE clock
             /\ call' = [op |-> "simulate", threat_type |-> threat_type,
                         app_id |-> app_id, result |-> Stamp(threats, ts)]
    /\ ThreatFrame

\* POST /threats/simulate
simulate_threat(threat_type, app_id) ==
    /\ Len(threat_log) < MaxThreats
    /\ LET threats == ThreatRules(app_id, {"full_spectrum"}, 15, uuid_issued)
       IN  \E ts \in NowReads(Len(threats)) :
             /\ threat_log' = threat_log \o Stamp(threats, ts)
             /\ uuid_issued' = uuid_issued + Len(threats)
             /\ clock' = IF Len(ts) > 0 THEN ts[Len(ts)] ELSE clock
             /\ call' = [op |-> "simulate", threat_type |-> threat_type,
                         app_id |-> app_id, result |-> Stamp(threats, ts)]
    /\ ThreatFrame

\* ------------------------------------------------------------ read routes
\* Python lst[start:] for a start of either sign
PySliceFrom(lst, start) ==
    LET n == Len(lst)
        first == IF start < 0
                 THEN (IF n + start > 0 THEN n + start ELSE 0)
                 ELSE (IF start < n THEN start ELSE n)
    IN  SubSeq(lst, first + 1, n)

\* lst[-limit:]
LastEntries(lst, limit) == PySliceFrom(lst, 0 - limit)

\* limit query parameters
LimitInputs == {0, 1, 2, 5}

\* the enum conversion of a stored permission string in the read routes
DecodePermission(p) == IF p \in PermissionType THEN p ELSE "motor_intent"

SetMax(S) == CHOOSE m \in S : \A x \in S : x <= m

\* GET /permissions/list: the AppPermission built for each record, stamps[a]
\* being the now() read for app a
list_permissions ==
    /\ \E stamps \in [DOMAIN permissions -> now] :
         /\ call' = [op |-> "list",
                     result |-> [a \in DOMAIN permissions |->
                        [app_id |-> a,
                         app_name |-> permissions[a].app_name,
                         requested_permissions |->
                            [i \in 1 .. Len(permissions[a].granted) |->
                                DecodePermission(permissions[a].granted[i])],
                         granted |-> TRUE,
                         timestamp |-> stamps[a]]]]
         /\ clock' = SetMax({clock} \cup { stamps[a] : a \in DOMAIN permissions })
    /\ UNCHANGED <<permissions, audit_log, started>>
    /\ GateFrame

\* GET /permissions/audit
get_audit_log(limit) ==
    /\ LET recent_logs == LastEntries(audit_log, limit)
       IN  call' = [op |-> "audit", limit |-> limit,
                    result |-> [i \in 1 .. Len(recent_logs) |->
                       [app_id |-> recent_logs[i].app_id,
                        app_name |-> recent_logs[i].app_name,
                        action |-> recent_logs[i].action,
                        permission_type |-> DecodePermission(recent_logs[i].permission),
                        timestamp |-> fromisoformat(recent_logs[i].timestamp)]]]
    /\ UNCHANGED <<permissions, audit_log, clock, started>>
    /\ GateFrame

\* GET /threats/recent
get_recent_threats(limit) ==
    /\ LET recent == LastEntries(threat_log, limit)
       IN  call' = [op |-> "recent_threats", limit |-> limit,
                    result |-> [i \in 1 .. Len(recent) |->
                       [threat_id |-> recent[i].threat_id,
                        threat_type |-> recent[i].threat_type,
                        level |-> recent[i].level,
                        description |-> recent[i].description,
                        app_id |-> recent[i].app_id,
                        timestamp |-> fromisoformat(recent[i].timestamp),
                        mitigated |-> recent[i].mitigated]]]
    /\ UNCHANGED <<threat_log, uuid_issued, clock>>
    /\ ThreatFrame

Init ==
    /\ permissions = EmptyDict
    /\ audit_log = <<>>
    /\ threat_log = <<>>
    /\ uuid_issued = 0
    /\ clock = 0
    /\ started = FALSE
    /\ call = [op |-> "none"]
    /\ threads = [t \in Threads |-> Idle]
    /\ intent_classifier = [model_path |-> "None", model |-> "None"]
    /\ current_privacy_state =
          [level |-> DEFAULT_PRIVACY_LEVEL, epsilon |-> DEFAULT_EPSILON, delta |-> DEFAULT_DELTA]

\* ------------------------------------------------ permission management
Grant == \E a \in AppIds, n \in AppNames, p \in PermissionType : grant_permission(a, n, p)
Revoke == \E a \in AppIds, p \in PermissionType : revoke_permission(a, p)
RevokeAll == \E a \in AppIds : revoke_all_permissions(a)

Next ==
    \/ startup_event
    \/ Grant
    \/ Revoke
    \/ RevokeAll

Spec == Init /\ [][Next]_vars

\* ------------------------------------------------------- data minimisation
\* the gate as seen by filter_data and check_permission: callers register
\* each app under one name and the calls arrive within one clock reading
RegisteredName(a) == IF a = "vr-arena" THEN "VR Training Arena" ELSE "Demo App"

FilterNext ==
    \/ startup_event /\ clock' = clock
    \/ \E a \in AppIds, p \in PermissionType :
          grant_permission(a, RegisteredName(a), p) /\ clock' = clock
    \/ \E a \in AppIds, p \in PermissionType :
          revoke_permission(a, p) /\ clock' = clock
    \/ \E a \in AppIds, d \in DataInputs, i \in IntentType : filter(a, d, i)
    \/ \E a \in AppIds, p \in PermissionType : check(a, p)
    \/ \E a \in AppIds : revoke_all_permissions(a) /\ clock' = clock
    \/ list_permissions /\ clock' = clock
    \/ \E l \in LimitInputs : get_audit_log(l)

FilterSpec == Init /\ [][FilterNext]_vars

\* --------------------------------------------------------- threat detection
RequestedSets == SUBSET PermissionType
Frequencies == {1, 10, 11, 15}
ThreatTypes == {"brain_jacking", "emotional_surveillance"}

ThreatNext ==
    \/ \E a \in AppIds, r \in RequestedSets, f \in Frequencies : detect_threats(a, r, f)
    \/ \E t \in ThreatTypes, a \in AppIds : simulate_threat(t, a)
    \/ \E l \in LimitInputs : get_recent_threats(l)

ThreatSpec == Init /\ [][ThreatNext]_vars

\* ------------------------------------------- callers sharing the gate
\* PermissionGate takes no lock: a caller running grant_permission or
\* revoke_permission on the global permission_gate can be preempted between
\* any two reads or writes of the shared table, the clock and the log.
\* Each step below is one such read or write; what a caller has read is
\* kept in its entry of threads.
ConcFrame ==
    UNCHANGED <<threat_log, uuid_issued, started, call, intent_classifier,
                current_privacy_state>>

\* grant_permission line 174: test `app_id not in self.permissions`
grant_test(t, app_id, app_name, permission_type) ==
    /\ started
    /\ threads[t].pc = "idle"
    /\ threads' = [threads EXCEPT ![t] =
          [pc |-> IF app_id \notin DOMAIN permissions
                  THEN "grant_create" ELSE "grant_member",
           op |-> "grant", app_id |-> app_id, app_name |-> app_name,
           permission |-> permission_type, ts |-> 0]]
    /\ UNCHANGED <<permissions, audit_log, clock>>
    /\ ConcFrame

\* grant_permission lines 175-178: store a new record under app_id, over
\* whatever record another caller stored since the test
grant_create(t) ==
    /\ threads[t].pc = "grant_create"
    /\ permissions' = DictSet(permissions, threads[t].app_id,
                              [app_name |-> threads[t].app_name, granted |-> <<>>])
    /\ threads' = [threads EXCEPT ![t].pc = "grant_member"]
    /\ UNCHANGED <<audit_log, clock>>
    /\ ConcFrame

\* grant_permission line 180: test `permission_type not in ...['granted']`
grant_member(t) ==
    /\ threads[t].pc = "grant_member"
    /\ threads' = [threads EXCEPT ![t].pc =
          IF ~InList(threads[t].permission, permissions[threads[t].app_id].granted)
          THEN "grant_append" ELSE "done"]
    /\ UNCHANGED <<permissions, audit_log, clock>>
    /\ ConcFrame

\* grant_permission line 181
grant_append(t) ==
    /\ threads[t].pc = "grant_append"
    /\ permissions' = [permissions EXCEPT ![threads[t].app_id].granted =
                          Append(@, threads[t].permission)]
    /\ threads' = [threads EXCEPT ![t].pc = "grant_now"]
    /\ UNCHANGED <<audit_log, clock>>
    /\ ConcFrame

\* grant_permission line 189: datetime.now() is read while the entry is
\* built, before the append is called
grant_now(t) ==
    /\ threads[t].pc = "grant_now"
    /\ \E ts \in now :
         /\ clock' = ts
         /\ threads' = [threads EXCEPT ![t].pc = "grant_log", ![t].ts = ts]
    /\ UNCHANGED <<permissions, audit_log>>
    /\ ConcFrame

\* grant_permission line 184: self.audit_log.append of the built entry
grant_log(t) ==
    /\ threads[t].pc = "grant_log"
    /\ audit_log' = Append(audit_log,
                           AuditEntry(threads[t].app_id, threads[t].app_name, "grant",
                                      threads[t].permission, threads[t].ts))
    /\ threads' = [threads EXCEPT ![t].pc = "done"]
    /\ UNCHANGED <<permissions, clock>>
    /\ ConcFrame

\* revoke_permission line 194: test `app_id in self.permissions`
revoke_test(t, app_id, permission_type) ==
    /\ started
    /\ threads[t].pc = "idle"
    /\ threads' = [threads EXCEPT ![t] =
          [pc |-> IF app_id \in DOMAIN permissions
                  THEN "revoke_member" ELSE "done",
           op |-> "revoke", app_id |-> app_id, app_name |-> "",
           permission |-> permission_type, ts |-> 0]]
    /\ UNCHANGED <<permissions, audit_log, clock>>
    /\ ConcFrame

\* revoke_permission line 195: test `permission_type in ...['granted']`
revoke_member(t) ==
    /\ threads[t].pc = "revoke_member"
    /\ threads' = [threads EXCEPT ![t].pc =
          IF InList(threads[t].permission, permissions[threads[t].app_id].granted)
          THEN "revoke_remove" ELSE "done"]
    /\ UNCHANGED <<permissions, audit_log, clock>>
    /\ ConcFrame

\* revoke_permission line 196: list.remove raises ValueError when the
\* permission is no longer in the list
revoke_remove(t) ==
    /\ threads[t].pc = "revoke_remove"
    /\ IF InList(threads[t].permission, permissions[threads[t].app_id].granted)
       THEN /\ permissions' = [permissions EXCEPT ![threads[t].app_id].granted =
                                  ListRemove(@, threads[t].permission)]
            /\ threads' = [threads EXCEPT ![t].pc = "revoke_name"]
       ELSE /\ threads' = [threads EXCEPT ![t].pc = "raised"]
            /\ UNCHANGED permissions
    /\ UNCHANGED <<audit_log, clock>>
    /\ ConcFrame

\* revoke_permission line 201: the entry's app_name is read from the record
revoke_name(t) ==
    /\ threads[t].pc = "revoke_name"
    /\ threads' = [threads EXCEPT ![t].pc = "revoke_now",
                                  ![t].app_name = permissions[threads[t].app_id].app_name]
    /\ UNCHANGED <<permissions, audit_log, clock>>
    /\ ConcFrame

\* revoke_permission line 204: datetime.now() is read while the entry is
\* built, before the append is called
revoke_now(t) ==
    /\ threads[t].pc = "revoke_now"
    /\ \E ts \in now :
         /\ clock' = ts
         /\ threads' = [threads EXCEPT ![t].pc = "revoke_log", ![t].ts = ts]
    /\ UNCHANGED <<permissions, audit_log>>
    /\ ConcFrame

\* revoke_permission line 199: self.audit_log.append of the built entry
revoke_log(t) ==
    /\ threads[t].pc = "revoke_log"
    /\ audit_log' = Append(audit_log,
                           AuditEntry(threads[t].app_id, threads[t].app_name,
                                      "revoke", threads[t].permission, threads[t].ts))
    /\ threads' = [threads EXCEPT ![t].pc = "done"]
    /\ UNCHANGED <<permissions, clock>>
    /\ ConcFrame

\* a reader calling check_permission while other calls are in progress
read_check(app_id, permission_type) ==
    /\ started
    /\ \E t \in Threads : threads[t].pc \notin {"idle", "done", "raised"}
    /\ check(app_id, permission_type)

ConcNext ==
    \/ startup_event
    \/ \E t \in Threads, a \in AppIds, p \in PermissionType :
          grant_test(t, a, RegisteredName(a), p)
    \/ \E t \in Threads : grant_create(t)
    \/ \E t \in Threads : grant_member(t)
    \/ \E t \in Threads : grant_append(t)
    \/ \E t \in Threads : grant_now(t)
    \/ \E t \in Threads : grant_log(t)
    \/ \E t \in Threads, a \in AppIds, p \in PermissionType : revoke_test(t, a, p)
    \/ \E t \in Threads : revoke_member(t)
    \/ \E t \in Threads : revoke_remove(t)
    \/ \E t \in Threads : revoke_name(t)
    \/ \E t \in Threads : revoke_now(t)
    \/ \E t \in Threads : revoke_log(t)
    \/ \E a \in AppIds, p \in PermissionType : read_check(a, p)

ConcSpec == Init /\ [][ConcNext]_vars

\* --------------------------------------------------- intent classification
\* band powers a feature mapping can carry, around the rule thresholds
BetaValues == {5, 10, 15, 16}
AlphaValues == {0, 10, 20}
ThetaValues == {0, 20, 21}
GammaValues == {10, 20, 30, 40, 41}
FeatureInputs ==
    [beta : BetaValues, alpha : AlphaValues, theta : ThetaValues, gamma : GammaValues]

\* beta / (alpha + 1e-10) > 1.5 on whole-number powers
BetaAlphaHigh(beta, alpha) == 2 * beta > 3 * alpha
\* theta / (alpha + 1e-10) > 1.0 on whole-number powers
ThetaAlphaHigh(theta, alpha) == theta > alpha

\* lines 85-116: the rules in source order, each with its score and reason
RuleTable(f) ==
    << [fires |-> f.beta > 15, score |-> 2, reason |-> "strong beta (focus)"],
       [fires |-> BetaAlphaHigh(f.beta, f.alpha), score |-> 1,
        reason |-> "high beta/alpha ratio"],
       [fires |-> f.gamma > 10 /\ f.gamma < 30, score |-> 1, reason |-> "controlled gamma"],
       [fires |-> f.theta > 20, score |-> -2, reason |-> "elevated theta (emotional)"],
       [fires |-> f.gamma > 40, score |-> -2, reason |-> "high gamma (stress)"],
       [fires |-> ThetaAlphaHigh(f.theta, f.alpha), score |-> -1,
        reason |-> "high theta/alpha"],
       [fires |-> f.beta < 10, score |-> -1, reason |-> "low beta"] >>

RECURSIVE RuleScore(_, _)
RuleScore(rules, k) ==
    IF k = 0 THEN 0
    ELSE RuleScore(rules, k - 1) + (IF rules[k].fires THEN rules[k].score ELSE 0)

RECURSIVE RuleReasons(_, _)
RuleReasons(rules, k) ==
    IF k = 0 THEN <<>>
    ELSE IF rules[k].fires
         THEN Append(RuleReasons(rules, k - 1), rules[k].reason)
         ELSE RuleReasons(rules, k - 1)

\* reasons[:2]
FirstTwo(reasons) == SubSeq(reasons, 1, IF Len(reasons) < 2 THEN Len(reasons) ELSE 2)

Abs(n) == IF n < 0 THEN -n ELSE n
Min(a, b) == IF a < b THEN a ELSE b

rule_based_classify_uncapped(features) ==
    LET score == RuleScore(RuleTable(features), 7)
        reasons == RuleReasons(RuleTable(features), 7)
    IN  IF score >= 2
        THEN [intent |-> "intentional", confidence |-> 5 + score,
              explanation |-> <<"Intentional command detected", FirstTwo(reasons)>>]
        ELSE IF score <= -2
        THEN [intent |-> "subconscious", confidence |-> 5 + Abs(score),
              explanation |-> <<"Subconscious activity detected", FirstTwo(reasons)>>]
        ELSE [intent |-> "neutral", confidence |-> 6,
              explanation |-> <<"Neutral brain state, no clear intent", <<>>>>]

\* _rule_based_classify; the confidence is in tenths
rule_based_classify(features) ==
    LET score == RuleScore(RuleTable(features), 7)
        reasons == RuleReasons(RuleTable(features), 7)
    IN  IF score >= 2
        THEN [intent |-> "intentional", confidence |-> Min(9, 5 + score),
              explanation |-> <<"Intentional command detected", FirstTwo(reasons)>>]
        ELSE IF score <= -2
        THEN [intent |-> "subconscious", confidence |-> Min(9, 5 + Abs(score)),
              explanation |-> <<"Subconscious activity detected", FirstTwo(reasons)>>]
        ELSE [intent |-> "neutral", confidence |-> 6,
              explanation |-> <<"Neutral brain state, no clear intent", <<>>>>]

\* what a loaded model can answer: predict()[0] and max(predict_proba()[0]) in tenths
Predictions == {0, 1, 2, 3}
Probabilities == {4, 10}

\* _ml_classify given the model's answers
ml_classify(prediction, probability) ==
    LET intent == CASE prediction = 0 -> "intentional"
                    [] prediction = 1 -> "subconscious"
                    [] prediction = 2 -> "neutral"
                    [] OTHER -> "neutral"
    IN  [intent |-> intent, confidence |-> probability,
         explanation |-> <<"ML model classified as", <<intent>>>>]

ModelPaths == {"None", "", "models/intent.pkl"}

construct_ignores_load_failure(model_path, exists, loads) ==
    [model_path |-> model_path,
     model |-> IF model_path \notin {"None", ""} /\ exists THEN "artifact" ELSE "None"]

\* IntentClassifier.__init__: the instance it leaves behind
construct(model_path, exists, loads) ==
    [model_path |-> model_path,
     model |-> IF model_path \notin {"None", ""} /\ exists /\ loads
               THEN "artifact" ELSE "None"]

ClassifierFrame ==
    UNCHANGED <<permissions, audit_log, threat_log, uuid_issued, clock, started, threads,
                current_privacy_state>>

\* intent_classifier = IntentClassifier(model_path)
IntentClassifier(model_path, exists, loads) ==
    /\ intent_classifier' = construct(model_path, exists, loads)
    /\ call' = [op |-> "construct", model_path |-> model_path,
                exists |-> exists, loads |-> loads, raised |-> FALSE]
    /\ ClassifierFrame

\* IntentClassifier.classify
classify(features) ==
    /\ IF intent_classifier.model # "None"
       THEN \E prediction \in Predictions, probability \in Probabilities :
               call' = [op |-> "classify", features |-> features, strategy |-> "ml",
                        result |-> ml_classify(prediction, probability)]
       ELSE call' = [op |-> "classify", features |-> features, strategy |-> "rule",
                     result |-> rule_based_classify(features)]
    /\ UNCHANGED intent_classifier
    /\ ClassifierFrame

ClassifierNext ==
    \/ \E m \in ModelPaths, e \in BOOLEAN, l \in BOOLEAN : IntentClassifier(m, e, l)
    \/ \E f \in FeatureInputs : classify(f)

ClassifierSpec == Init /\ [][ClassifierNext]_vars

\* ------------------------------------------------------------ privacy engine
BandNames == {"theta", "alpha"}
PowerValues == {0, 3}
\* a mapping of band names to powers
BandMaps == UNION { [S -> PowerValues] : S \in SUBSET BandNames }
\* values np.random.laplace can return: either sign, small or large
NoiseDraws == {-5, 0, 2}
\* privacy levels in tenths
PrivacyLevels == {0, 5, 10}
\* self.epsilon of a PrivacyEngine instance, in tenths
EngineEpsilons == {5, DEFAULT_EPSILON}

EffectiveEpsilon_inverted(epsilon, privacy_level) == epsilon * (11 - privacy_level)

\* self.epsilon * (privacy_level + 0.1), in hundredths
EffectiveEpsilon(epsilon, privacy_level) == epsilon * (privacy_level + 1)

\* 1.0 / effective_epsilon as a fraction
NoiseScale(effective_epsilon) == [num |-> 100, den |-> effective_epsilon]

Max(a, b) == IF a > b THEN a ELSE b

privatize_frequency_bands_unclamped(bands, privacy_level, noise) ==
    [band_name \in DOMAIN bands |-> bands[band_name] + noise[band_name]]

\* privatize_frequency_bands, noise[b] being the draw made for band b
privatize_frequency_bands(bands, privacy_level, noise) ==
    [band_name \in DOMAIN bands |-> Max(0, bands[band_name] + noise[band_name])]

\* a value of a data mapping: a number, or the n-th text value
Num(n) == <<"num", n>>
Text(n) == <<"str", n>>
\* isinstance(v, (int, float))
IsNumeric(v) == v[1] = "num"

\* data mappings for apply_privacy: band powers, with or without a text field
PrivacyData ==
    { [k \in DOMAIN m |-> Num(m[k])] : m \in BandMaps }
    \cup { [k \in (DOMAIN m) \cup {"label"} |->
                IF k = "label" THEN Text(1) ELSE Num(m[k])] : m \in BandMaps }
\* the protect_fields argument: None, or a list of field names
NoFields == [none |-> TRUE, fields |-> {}]
ProtectFields ==
    {NoFields} \cup { [none |-> FALSE, fields |-> S] : S \in SUBSET {"theta", "label"} }

\* lines 93-100: the fields that get a noise draw
ProtectedKeys(data, protect_fields) ==
    LET fields == IF protect_fields.none
                  THEN { k \in DOMAIN data : IsNumeric(data[k]) }
                  ELSE protect_fields.fields
    IN  { k \in fields : k \in DOMAIN data /\ IsNumeric(data[k]) }

\* apply_privacy, noise[f] being the draw made for field f
apply_privacy(data, privacy_level, protect_fields, noise) ==
    [k \in DOMAIN data |->
        IF k \in ProtectedKeys(data, protect_fields)
        THEN Num(data[k][2] + noise[k]) ELSE data[k]]

PrivacyFrame ==
    UNCHANGED <<permissions, audit_log, threat_log, uuid_issued, clock, started,
                threads, intent_classifier, current_privacy_state>>

\* privacy_engine.privatize_frequency_bands(bands, privacy_level)
privatize(bands, privacy_level) ==
    /\ \E noise \in [DOMAIN bands -> NoiseDraws], epsilon \in EngineEpsilons :
          call' = [op |-> "privatize", bands |-> bands, privacy_level |-> privacy_level,
                   epsilon |-> epsilon,
                   effective_epsilon |-> EffectiveEpsilon(epsilon, privacy_level),
                   scale |-> NoiseScale(EffectiveEpsilon(epsilon, privacy_level)),
                   noise |-> noise,
                   result |-> privatize_frequency_bands(bands, privacy_level, noise),
                   bands_after |-> bands]
    /\ PrivacyFrame

\* privacy_engine.apply_privacy(data, privacy_level, protect_fields)
protect(data, privacy_level, protect_fields) ==
    /\ \E noise \in [ProtectedKeys(data, protect_fields) -> NoiseDraws],
          epsilon \in EngineEpsilons :
          call' = [op |-> "apply_privacy", data |-> data, privacy_level |-> privacy_level,
                   protect_fields |-> protect_fields,
                   epsilon |-> epsilon,
                   effective_epsilon |-> EffectiveEpsilon(epsilon, privacy_level),
                   scale |-> NoiseScale(EffectiveEpsilon(epsilon, privacy_level)),
                   noise |-> noise,
                   result |-> apply_privacy(data, privacy_level, protect_fields, noise),
                   data_after |-> data]
    /\ PrivacyFrame

\* data mappings for mask_sensitive_data
MaskData ==
    { [k \in S |-> IF k = "label" THEN Text(1) ELSE Num(3)] :
         S \in SUBSET {"theta", "gamma", "alpha", "label"} }
\* sensitivity thresholds in tenths
Thresholds == {0, 2, 3, 7}
SensitiveFields == {"theta", "gamma"}

mask_sensitive_data_at_threshold(data, sensitivity_threshold) ==
    IF sensitivity_threshold <= 3
    THEN [k \in DOMAIN data |-> IF k \in SensitiveFields THEN Num(0) ELSE data[k]]
    ELSE data

\* mask_sensitive_data
mask_sensitive_data(data, sensitivity_threshold) ==
    IF sensitivity_threshold < 3
    THEN [k \in DOMAIN data |-> IF k \in SensitiveFields THEN Num(0) ELSE data[k]]
    ELSE data

\* privacy_engine.mask_sensitive_data(data, sensitivity_threshold)
mask(data, sensitivity_threshold) ==
    /\ call' = [op |-> "mask", data |-> data, threshold |-> sensitivity_threshold,
                result |-> mask_sensitive_data(data, sensitivity_threshold),
                data_after |-> data]
    /\ PrivacyFrame

PrivacyNext ==
    \/ \E b \in BandMaps, l \in PrivacyLevels : privatize(b, l)
    \/ \E d \in PrivacyData, l \in PrivacyLevels, f \in ProtectFields : protect(d, l, f)
    \/ \E d \in MaskData, t \in Thresholds : mask(d, t)

PrivacySpec == Init /\ [][PrivacyNext]_vars

\* ------------------------------------------------------------ signal route
ChannelNames == {"C3", "C4"}
\* sample lists a channel of a request can carry
SampleLists == { <<1, 2>>, <<1, 2, 4>> }
\* the channels field of EEGSignalInput: channel name -> list of samples
ChannelInputs == UNION { [S -> SampleLists] : S \in SUBSET ChannelNames }
SAMPLING_RATE == 256
\* EEGSignalInput.sampling_rate: any integer, 256 when the request omits it
SamplingRates == {128, SAMPLING_RATE, 512}

\* sample lists a filtered channel can hold. The samples are even, so that
\* the band powers below and their mean over one or two channels are whole
CleanedLists == { <<0, 0>>, <<2, -2>>, <<2, 4, 8>>, <<0, 0, 6>>, <<0, 0, 8>> }

\* SignalProcessor.clean_signal: the notch and band-pass filters return the
\* same channel names with as many samples each; the filtered values are
\* the output of floating-point filters and are drawn from CleanedLists
clean_signal(channels) ==
    { c \in [DOMAIN channels -> CleanedLists] :
         \A ch \in DOMAIN channels : Len(c[ch]) = Len(channels[ch]) }

\* self.bands, the limits in half hertz
SignalBands ==
    [delta |-> <<1, 8>>, theta |-> <<8, 16>>, alpha |-> <<16, 26>>,
     beta |-> <<26, 60>>, gamma |-> <<60, 200>>]

\* line 113: the bins of fftfreq(n, 1/sampling_rate) inside a band. Bin k
\* is at k * sampling_rate / n hertz for 1 <= k <= (n - 1) / 2; bin 0 and the
\* negative frequencies of the other bins are below every band
BinsIn(band, n) ==
    { k \in 1 .. ((n - 1) \div 2) :
         /\ SignalBands[band][1] * n <= 2 * k * SAMPLING_RATE
         /\ 2 * k * SAMPLING_RATE <= SignalBands[band][2] * n }

\* line 108: |fft(data)[k]|^2, for the lists of three and four samples,
\* whose only bin of positive frequency is k = 1
Power(data, k) ==
    IF Len(data) = 3
    THEN data[1] * data[1] + data[2] * data[2] + data[3] * data[3]
         - data[1] * data[2] - data[2] * data[3] - data[3] * data[1]
    ELSE IF Len(data) = 4
    THEN (data[1] - data[3]) * (data[1] - data[3])
         + (data[2] - data[4]) * (data[2] - data[4])
    ELSE 0

RECURSIVE SumOver(_, _, _)
\* the sum of Power(data, k) over a set of bins
SumOver(data, bins, k) ==
    IF k = 0 THEN 0
    ELSE SumOver(data, bins, k - 1) + (IF k \in bins THEN Power(data, k) ELSE 0)

\* lines 116-117: np.mean(power[idx]) of one channel
BandPower(data, band) ==
    SumOver(data, BinsIn(band, Len(data)), Len(data))
        \div Cardinality(BinsIn(band, Len(data)))

RECURSIVE SumPowers(_, _, _)
SumPowers(channels, names, band) ==
    IF names = {} THEN 0
    ELSE LET ch == CHOOSE c \in names : TRUE
         IN  BandPower(channels[ch], band) + SumPowers(channels, names \ {ch}, band)

\* SignalProcessor.extract_frequency_bands: per band the mean over the
\* channels that have a bin in the band, 0.0 when no channel has one
extract_frequency_bands(channels) ==
    [band \in DOMAIN SignalBands |->
        LET having == { ch \in DOMAIN channels :
                           BinsIn(band, Len(channels[ch])) # {} }
        IN  IF having = {} THEN 0
            ELSE SumPowers(channels, having, band) \div Cardinality(having)]

\* SignalProcessor.compute_features: the band powers and the channel count
\* (the keys the route and the rule-based classifier read)
compute_features(channels) ==
    LET band_powers == extract_frequency_bands(channels)
    IN  [delta |-> band_powers.delta, theta |-> band_powers.theta,
         alpha |-> band_powers.alpha, beta |-> band_powers.beta,
         gamma |-> band_powers.gamma,
         num_channels |-> Cardinality(DOMAIN channels)]

EEGBands == {"delta", "theta", "alpha", "beta", "gamma"}
\* the draws made for the five bands in one call
ProcessNoise == { [b \in EEGBands |-> n] : n \in NoiseDraws }

\* EEGSignalInput.validate_channels
validate_channels(channels) == DOMAIN channels # {}

\* np.array of the channel lists is rectangular
EqualLengths(channels) ==
    \A c, d \in DOMAIN channels : Len(channels[c]) = Len(channels[d])

\* what intent_classifier.classify(features) can return
ClassifyOutcomes(features) ==
    IF intent_classifier.model # "None"
    THEN { ml_classify(prediction, probability) :
              prediction \in Predictions, probability \in Probabilities }
    ELSE { rule_based_classify(features) }

\* lines 53-59: the band powers taken from the features
BandsOf(features) == [b \in EEGBands |-> features[b]]

ProcessFrame ==
    UNCHANGED <<permissions, audit_log, threat_log, uuid_issued, started,
                threads, intent_classifier>>

process_privacy_level_from_state == current_privacy_state.level

\* privacy_level = settings.DEFAULT_PRIVACY_LEVEL
process_privacy_level == DEFAULT_PRIVACY_LEVEL

\* POST /process: call.stages lists the pipeline stages entered, in order
process_eeg_signal(channels, sampling_rate) ==
    /\ IF ~validate_channels(channels)
       THEN /\ call' = [op |-> "process", channels |-> channels,
                        sampling_rate |-> sampling_rate, status |-> 422,
                        error |-> "At least one channel required", stages |-> <<>>]
            /\ clock' = clock
       ELSE IF ~EqualLengths(channels)
       THEN /\ call' = [op |-> "process", channels |-> channels,
                        sampling_rate |-> sampling_rate, status |-> 500,
                        error |-> "Signal processing failed",
                        stages |-> <<"clean_signal">>]
            /\ clock' = clock
       ELSE \E cleaned \in clean_signal(channels), noise \in ProcessNoise, ts \in now :
               \E intent \in ClassifyOutcomes(compute_features(cleaned)) :
                  /\ call' =
                       [op |-> "process", channels |-> channels,
                        sampling_rate |-> sampling_rate, status |-> 200,
                        stages |-> <<"clean_signal", "compute_features", "classify",
                                     "privatize_frequency_bands">>,
                        cleaned |-> cleaned,
                        features |-> compute_features(cleaned), noise |-> noise,
                        processor_rate |-> SAMPLING_RATE,
                        privacy_level |-> process_privacy_level,
                        scale |-> NoiseScale(EffectiveEpsilon(DEFAULT_EPSILON,
                                                              process_privacy_level)),
                        result |->
                          [original_channels |-> Cardinality(DOMAIN channels),
                           sampling_rate |-> sampling_rate,
                           frequency_bands |->
                              privatize_frequency_bands(BandsOf(compute_features(cleaned)),
                                                        process_privacy_level, noise),
                           intent_classification |-> intent,
                           privacy_applied |-> TRUE,
                           threats_detected |-> <<>>,
                           timestamp |-> isoformat(ts)]]
                  /\ clock' = ts
    /\ UNCHANGED current_privacy_state
    /\ ProcessFrame

\* levels a client can send, in tenths
LevelInputs == {-1, 0, 5, 10, 11}

\* POST /privacy/set-level
set_privacy_level(level) ==
    /\ IF level < 0 \/ level > 10
       THEN /\ call' = [op |-> "set_level", level |-> level, status |-> 422,
                        error |-> "level out of range"]
            /\ UNCHANGED current_privacy_state
       ELSE /\ current_privacy_state' =
                 [current_privacy_state EXCEPT
                     !.level = level,
                     !.epsilon = (DEFAULT_EPSILON * (level + 1)) \div 10]
            /\ call' = [op |-> "set_level", level |-> level, status |-> 200,
                        error |-> ""]
    /\ clock' = clock
    /\ ProcessFrame

ProcessNext ==
    \/ \E c \in ChannelInputs, r \in SamplingRates : process_eeg_signal(c, r)
    \/ \E l \in LevelInputs : set_privacy_level(l)

ProcessSpec == Init /\ [][ProcessNext]_vars

\* ------------------------------------------------- stored permission strings
\* PermissionGate.grant_permission takes any string: the four enumerated
\* values and one that is not a PermissionType
StoredPermissions == PermissionType \cup {"telepathy"}

DecodeNext ==
    \/ startup_event /\ clock' = clock
    \/ \E a \in AppIds, p \in StoredPermissions :
          grant_permission(a, RegisteredName(a), p) /\ clock' = clock
    \/ \E a \in AppIds, p \in StoredPermissions : check(a, p)
    \/ list_permissions /\ clock' = clock
    \/ \E l \in LimitInputs : get_audit_log(l)

DecodeSpec == Init /\ [][DecodeNext]_vars

\* ------------------------------------------------------- threat statistics
ThreatLevels == {"low", "medium", "high", "critical"}
\* timedelta(hours=24) in clock ticks
DayTicks == 24 * 3600 * TicksPerSecond

TypesIn(log) == { log[i].threat_type : i \in 1 .. Len(log) }
TypeCount(log, ty) == Cardinality({ i \in 1 .. Len(log) : log[i].threat_type = ty })
FirstSeen(log, ty) == CHOOSE i \in 1 .. Len(log) :
                         /\ log[i].threat_type = ty
                         /\ \A j \in 1 .. (i - 1) : log[j].threat_type # ty

\* max(type_counts.items(), key=count)[0]: the first of the most frequent
\* types in insertion order
MostCommonThreat(log) ==
    IF log = <<>> THEN "None"
    ELSE CHOOSE ty \in TypesIn(log) :
            \A other \in TypesIn(log) :
               \/ TypeCount(log, other) < TypeCount(log, ty)
               \/ /\ TypeCount(log, other) = TypeCount(log, ty)
                  /\ FirstSeen(log, ty) <= FirstSeen(log, other)

\* GET /threats/stats, ts[i] being the now() read made for the i-th threat
get_threat_statistics ==
    /\ \E ts \in NowReads(Len(threat_log)) :
         /\ call' = [op |-> "stats",
                     result |->
                       [total_threats |-> Len(threat_log),
                        threats_24h |->
                           Cardinality({ i \in 1 .. Len(threat_log) :
                              fromisoformat(threat_log[i].timestamp) > ts[i] - DayTicks }),
                        by_level |-> [l \in ThreatLevels |->
                           Cardinality({ i \in 1 .. Len(threat_log) :
                                            threat_log[i].level = l })],
                        by_type |-> [ty \in TypesIn(threat_log) |-> TypeCount(threat_log, ty)],
                        most_common_threat |-> MostCommonThreat(threat_log)]]
         /\ clock' = IF Len(ts) > 0 THEN ts[Len(ts)] ELSE clock
    /\ UNCHANGED <<threat_log, uuid_issued>>
    /\ ThreatFrame

\* ------------------------------------------- gate and detector side by side
\* one app using both components within one clock reading
FrameApp == "demo_app"
FramePermissions == {"motor_intent", "full_spectrum"}
FrameRequested == {{}, {"full_spectrum"}}
FrameFrequencies == {1, 15}
FrameData == { [f \in {"theta", "gamma"} |-> FieldValue[f]] }

FrameNext ==
    \/ \E p \in FramePermissions :
          grant_permission(FrameApp, RegisteredName(FrameApp), p) /\ clock' = clock
    \/ \E p \in FramePermissions : revoke_permission(FrameApp, p) /\ clock' = clock
    \/ revoke_all_permissions(FrameApp) /\ clock' = clock
    \/ \E p \in FramePermissions : check(FrameApp, p)
    \/ \E d \in FrameData, i \in {"intentional"} : filter(FrameApp, d, i)
    \/ list_permissions /\ clock' = clock
    \/ \E l \in {0, 1} : get_audit_log(l)
    \/ \E r \in FrameRequested, f \in FrameFrequencies :
          detect_threats(FrameApp, r, f) /\ clock' = clock
    \/ \E t \in ThreatTypes : simulate_threat(t, FrameApp) /\ clock' = clock
    \/ \E l \in {0, 1} : get_recent_threats(l)
    \/ get_threat_statistics /\ clock' = clock

FrameSpec == Init /\ [][FrameNext]_vars

\* =================================================================== claims
\* the granted permissions of an app as a set (empty without a record)
GrantedSet(a) ==
    IF a \in DOMAIN permissions
    THEN { permissions[a].granted[i] : i \in 1 .. Len(permissions[a].granted) }
    ELSE {}

HasRecord(a) == a \in DOMAIN permissions

\* fields a single permission exposes (spec 4.5, step 2)
FieldsOf(p) ==
    CASE p = "motor_intent" -> {"motor_intent", "beta"}
      [] p = "focus_level" -> {"beta_alpha_ratio"}
      [] p = "emotional_state" -> {"theta", "alpha"}
      [] OTHER -> {}

\* C1: filter() for an app without a permission record returns exactly
\* {motor_intent: 1 if intent is intentional else 0}, whatever the data
C1_DefaultDeny ==
    (call.op = "filter" /\ ~HasRecord(call.app_id)) =>
        /\ DOMAIN call.result = {"motor_intent"}
        /\ call.result["motor_intent"] = (IF call.intent = "intentional" THEN 1 ELSE 0)

\* an unknown app filtered full band data while another app holds a record
C1_Witness ==
    /\ call.op = "filter"
    /\ ~HasRecord(call.app_id)
    /\ DOMAIN call.data = DataFields
    /\ call.intent = "intentional"
    /\ \E a \in AppIds : HasRecord(a) /\ "full_spectrum" \in GrantedSet(a)

\* C2: without full_spectrum the result's keys are exactly the union of the
\* fields of the granted permissions, every data field carries the input's
\* value (0 when the input lacks it) and motor_intent is 1 iff intentional
C2_AdditiveFields ==
    (call.op = "filter" /\ HasRecord(call.app_id)
       /\ "full_spectrum" \notin GrantedSet(call.app_id)) =>
        /\ DOMAIN call.result = UNION { FieldsOf(p) : p \in GrantedSet(call.app_id) }
        /\ \A k \in DOMAIN call.result :
             IF k = "motor_intent"
             THEN call.result[k] = (IF call.intent = "intentional" THEN 1 ELSE 0)
             ELSE call.result[k] = (IF k \in DOMAIN call.data THEN call.data[k] ELSE 0)

\* motor_intent, focus_level and emotional_state all granted, full data in
C2_Witness ==
    /\ call.op = "filter"
    /\ GrantedSet(call.app_id) = {"motor_intent", "focus_level", "emotional_state"}
    /\ DOMAIN call.data = DataFields
    /\ DOMAIN call.result = {"motor_intent", "beta", "beta_alpha_ratio", "theta", "alpha"}

\* C3: with full_spectrum granted the result is the unfiltered input, same
\* keys and same values, whatever else is granted
C3_FullSpectrumOverride ==
    (call.op = "filter" /\ "full_spectrum" \in GrantedSet(call.app_id)) =>
        call.result = call.data

\* emotional_state and full_spectrum both granted, input without motor_intent
C3_Witness ==
    /\ call.op = "filter"
    /\ {"emotional_state", "full_spectrum"} \subseteq GrantedSet(call.app_id)
    /\ DOMAIN call.data = {"delta", "theta", "alpha", "beta", "gamma"}
    /\ "motor_intent" \notin DOMAIN call.result
    /\ "delta" \in DOMAIN call.result

\* ------------------------------------------------------- grant and revoke
GrantedOf(perms, a) ==
    IF a \in DOMAIN perms
    THEN { perms[a].granted[i] : i \in 1 .. Len(perms[a].granted) }
    ELSE {}

GrantedList(perms, a) == IF a \in DOMAIN perms THEN perms[a].granted ELSE <<>>

IsPrefix(s, t) == Len(s) <= Len(t) /\ SubSeq(t, 1, Len(s)) = s

LastAudit == audit_log[Len(audit_log)]

\* every record other than a's is the same in perms and perms2
OthersUnchanged(perms, perms2, a) ==
    /\ (DOMAIN perms2) \ {a} = (DOMAIN perms) \ {a}
    /\ \A b \in (DOMAIN perms) \ {a} : perms2[b] = perms[b]

\* C4: grant of a permission the app already holds changes neither the
\* permission table nor the audit log
C4_GrantHeldNoop ==
    [][ (call'.op = "grant" /\ call'.permission \in GrantedOf(permissions, call'.app_id))
          => UNCHANGED <<permissions, audit_log>> ]_vars

\* a grant of a held permission, under another app name, has just returned:
\* the last audit entry is not a grant of that permission to that app
C4_Witness ==
    /\ call.op = "grant"
    /\ call.permission \in GrantedSet(call.app_id)
    /\ call.app_name # permissions[call.app_id].app_name
    /\ audit_log # <<>>
    /\ ~(LastAudit.action = "grant" /\ LastAudit.app_id = call.app_id
           /\ LastAudit.permission = call.permission)

\* C5: grant of a permission the app does not hold adds exactly that
\* permission to that app (creating the record if needed), leaves the other
\* apps alone, appends exactly one grant audit entry carrying the call's app
\* id, app name and permission, and check() is true afterwards
C5_GrantNew ==
    [][ (call'.op = "grant" /\ call'.permission \notin GrantedOf(permissions, call'.app_id))
          => LET a == call'.app_id
                 p == call'.permission
             IN  /\ a \in DOMAIN permissions'
                 /\ GrantedList(permissions', a) = Append(GrantedList(permissions, a), p)
                 /\ GrantedOf(permissions', a) = GrantedOf(permissions, a) \cup {p}
                 /\ OthersUnchanged(permissions, permissions', a)
                 /\ Len(audit_log') = Len(audit_log) + 1
                 /\ IsPrefix(audit_log, audit_log')
                 /\ LET e == audit_log'[Len(audit_log')]
                    IN  /\ e.app_id = a
                        /\ e.app_name = call'.app_name
                        /\ e.action = "grant"
                        /\ e.permission = p
                        /\ fromisoformat(e.timestamp) = clock'
                 /\ check_permission(permissions', a, p) ]_vars

\* a second permission was granted under a name other than the recorded one
\* while another app holds a record
C5_Witness ==
    /\ call.op = "grant"
    /\ audit_log # <<>>
    /\ LastAudit.action = "grant"
    /\ LastAudit.app_id = call.app_id
    /\ LastAudit.permission = call.permission
    /\ LastAudit.app_name # permissions[call.app_id].app_name
    /\ Len(permissions[call.app_id].granted) >= 2
    /\ \E b \in DOMAIN permissions : b # call.app_id

\* C6: revoke of a permission the app does not hold, or for an app id
\* without a record, changes neither the permission table nor the audit log
C6_RevokeAbsentNoop ==
    [][ (call'.op = "revoke" /\ call'.permission \notin GrantedOf(permissions, call'.app_id))
          => UNCHANGED <<permissions, audit_log>> ]_vars

\* a revoke for an app id without a record has returned, the table being
\* non-empty: still no record for it
C6_Witness ==
    /\ call.op = "revoke"
    /\ ~HasRecord(call.app_id)
    /\ DOMAIN permissions # {}
    /\ audit_log # <<>>

\* C7: revoke of a held permission removes exactly that permission from that
\* app, leaves the other apps alone, appends exactly one revoke audit entry
\* for that app and permission, and check() is false afterwards
C7_RevokeHeld ==
    [][ (call'.op = "revoke" /\ call'.permission \in GrantedOf(permissions, call'.app_id))
          => LET a == call'.app_id
                 p == call'.permission
                 Keep(x) == x # p
             IN  /\ a \in DOMAIN permissions'
                 /\ permissions'[a].granted = SelectSeq(permissions[a].granted, Keep)
                 /\ permissions'[a].app_name = permissions[a].app_name
                 /\ OthersUnchanged(permissions, permissions', a)
                 /\ Len(audit_log') = Len(audit_log) + 1
                 /\ IsPrefix(audit_log, audit_log')
                 /\ LET e == audit_log'[Len(audit_log')]
                    IN  /\ e.app_id = a
                        /\ e.action = "revoke"
                        /\ e.permission = p
                 /\ ~check_permission(permissions', a, p) ]_vars

\* a revoke has removed one of several permissions of an app while another
\* app holds a record
C7_Witness ==
    /\ call.op = "revoke"
    /\ audit_log # <<>>
    /\ LastAudit.action = "revoke"
    /\ LastAudit.app_id = call.app_id
    /\ LastAudit.permission = call.permission
    /\ HasRecord(call.app_id)
    /\ GrantedSet(call.app_id) # {}
    /\ \E b \in DOMAIN permissions : b # call.app_id /\ GrantedSet(b) # {}

\* C8: the audit log is append-only and the timestamps of consecutive
\* entries are strictly increasing
C8_AppendOnlyStrictlyOrdered ==
    [][ /\ IsPrefix(audit_log, audit_log')
        /\ \A i \in 1 .. (Len(audit_log') - 1) :
             fromisoformat(audit_log'[i].timestamp)
                < fromisoformat(audit_log'[i + 1].timestamp) ]_vars

\* -------------------------------------------------------- threat detection
CountOf(threats, threat_type, level) ==
    Cardinality({ i \in 1 .. Len(threats) :
                    threats[i].threat_type = threat_type /\ threats[i].level = level })

\* C9: detect() returns one high excessive_permissions alert iff
\* full_spectrum is requested, one medium data_harvesting alert iff the
\* frequency exceeds 10, one critical emotional_surveillance alert iff
\* emotional_state is requested without motor_intent, and nothing else
C9_DetectRules ==
    (call.op = "detect") =>
        LET r == call.result
            n1 == IF "full_spectrum" \in call.requested THEN 1 ELSE 0
            n2 == IF call.frequency > 10 THEN 1 ELSE 0
            n3 == IF "emotional_state" \in call.requested
                     /\ "motor_intent" \notin call.requested THEN 1 ELSE 0
        IN  /\ CountOf(r, "excessive_permissions", "high") = n1
            /\ CountOf(r, "data_harvesting", "medium") = n2
            /\ CountOf(r, "emotional_surveillance", "critical") = n3
            /\ Len(r) = n1 + n2 + n3
            /\ \A i \in 1 .. Len(r) : r[i].app_id = call.app_id

\* {emotional_state} at frequency 1 gave exactly one critical alert
C9_Witness ==
    /\ call.op = "detect"
    /\ call.requested = {"emotional_state"}
    /\ call.frequency = 1
    /\ Len(call.result) = 1
    /\ call.result[1].level = "critical"
    /\ call.result[1].threat_type = "emotional_surveillance"

RuleRank(threat_type) ==
    CASE threat_type = "excessive_permissions" -> 1
      [] threat_type = "data_harvesting" -> 2
      [] OTHER -> 3

\* C10: the alerts a detect() call returns are appended to the threat log
\* in that call, in rule order, unmitigated, timestamped and with ids that
\* no other alert of the log has; the log only grows by appending and no
\* alert ever becomes mitigated
C10_ThreatLogAppend ==
    [][ /\ IsPrefix(threat_log, threat_log')
        /\ (call'.op \in {"detect", "simulate"}) =>
              /\ threat_log' = threat_log \o call'.result
              /\ \A i, j \in 1 .. Len(call'.result) :
                   i < j => RuleRank(call'.result[i].threat_type)
                              < RuleRank(call'.result[j].threat_type)
        /\ \A i \in 1 .. Len(threat_log') :
              /\ threat_log'[i].mitigated = FALSE
              /\ "timestamp" \in DOMAIN threat_log'[i]
              /\ \A j \in 1 .. Len(threat_log') :
                   i # j => threat_log'[i].threat_id # threat_log'[j].threat_id ]_vars

\* a detect() call returning two alerts was appended after earlier alerts
C10_Witness ==
    /\ call.op = "detect"
    /\ Len(call.result) = 2
    /\ Len(threat_log) > Len(call.result)
    /\ SubSeq(threat_log, Len(threat_log) - 1, Len(threat_log)) = call.result

\* ------------------------------------------------------------ concurrency
NoDuplicates(lst) == \A i, j \in 1 .. Len(lst) : lst[i] = lst[j] => i = j

\* number of audit entries of one action for one app and permission
AuditCount(log, a, action, p) ==
    Cardinality({ i \in 1 .. Len(log) :
                    /\ log[i].app_id = a
                    /\ log[i].action = action
                    /\ log[i].permission = p })

TimeOrdered(log) ==
    \A i \in 1 .. Len(log) - 1 :
        fromisoformat(log[i].timestamp) <= fromisoformat(log[i + 1].timestamp)

\* C11: concurrent grant and revoke calls for one app id end as some serial
\* order of the calls would: no call fails, no granted list holds a
\* permission twice, the grant entries of a permission exceed its revoke
\* entries by one exactly when it is held (so two concurrent grants of the
\* same new permission leave one entry), and the audit timestamps are
\* non-decreasing
C11_ConcurrentSerializable ==
    /\ \A t \in Threads : threads[t].pc # "raised"
    /\ \A a \in DOMAIN permissions : NoDuplicates(permissions[a].granted)
    /\ \A a \in AppIds, p \in PermissionType :
          (\A t \in Threads : threads[t].pc \in {"idle", "done"}) =>
             AuditCount(audit_log, a, "grant", p) - AuditCount(audit_log, a, "revoke", p)
                = IF p \in GrantedSet(a) THEN 1 ELSE 0
    /\ TimeOrdered(audit_log)

\* what a reader sees is the state between two whole calls: every record
\* was created by a logged grant, and every held permission has its grant entry
SnapshotConsistent ==
    \A a \in DOMAIN permissions :
        /\ \E i \in 1 .. Len(audit_log) :
              audit_log[i].app_id = a /\ audit_log[i].action = "grant"
        /\ \A p \in GrantedSet(a) :
              AuditCount(audit_log, a, "grant", p) > AuditCount(audit_log, a, "revoke", p)

\* C12: a read interleaved with a grant never observes a partially applied
\* grant: at every check_permission call made while grants are in progress
\* no record holds a permission whose grant entry is missing, and no record
\* exists without a logged grant
C12_ReadersSeeWholeGrants ==
    [][(\E a \in AppIds, p \in PermissionType : read_check(a, p))
          => SnapshotConsistent]_vars

\* ------------------------------------------------------------- classifier
\* the seven rule terms of the specification, summed
ExpectedScore(f) ==
    (IF f.beta > 15 THEN 2 ELSE 0)
    + (IF 2 * f.beta > 3 * f.alpha THEN 1 ELSE 0)
    + (IF 10 < f.gamma /\ f.gamma < 30 THEN 1 ELSE 0)
    - (IF f.theta > 20 THEN 2 ELSE 0)
    - (IF f.gamma > 40 THEN 2 ELSE 0)
    - (IF f.theta > f.alpha THEN 1 ELSE 0)
    - (IF f.beta < 10 THEN 1 ELSE 0)

RuleCall == call.op = "classify" /\ call.strategy = "rule"

\* C15: the rule-based classifier answers intentional with confidence
\* min(0.9, 0.5 + 0.1*score) when the seven-rule score is >= 2, subconscious
\* with min(0.9, 0.5 + 0.1*|score|) when it is <= -2, neutral with 0.6
\* otherwise; the score is in [-6, 4] and the confidence in {0.6 .. 0.9}
C15_RuleBasedDecision ==
    RuleCall =>
        LET s == ExpectedScore(call.features)
            r == call.result
        IN  /\ s \in -6 .. 4
            /\ r.confidence \in {6, 7, 8, 9}
            /\ s >= 2 => r.intent = "intentional" /\ r.confidence = Min(9, 5 + s)
            /\ s <= -2 => r.intent = "subconscious" /\ r.confidence = Min(9, 5 - s)
            /\ (-2 < s /\ s < 2) => r.intent = "neutral" /\ r.confidence = 6

\* a call whose score is the minimum, where the cap on the confidence acts
C15_Witness ==
    /\ RuleCall
    /\ ExpectedScore(call.features) = -6
    /\ call.result.intent = "subconscious"
    /\ call.result.confidence = 9

PathConfigured(model_path) == model_path \notin {"None", ""}

\* C16: the strategy is fixed by construction: constructing never raises and
\* leaves a model only when a configured, existing artifact loaded; classify()
\* never changes the instance and uses the model-based strategy exactly when
\* the instance has a model, the rule-based one otherwise
C16_StrategyFixedAtConstruction ==
    [][/\ call'.op = "construct" =>
            /\ ~call'.raised
            /\ (intent_classifier'.model # "None")
                  <=> (PathConfigured(call'.model_path) /\ call'.exists /\ call'.loads)
       /\ call'.op = "classify" =>
            /\ intent_classifier' = intent_classifier
            /\ call'.strategy = IF intent_classifier.model = "None" THEN "rule" ELSE "ml"
       /\ intent_classifier' # intent_classifier => call'.op = "construct"]_vars

\* an existing artifact failed to load and the instance has no model
C16_Witness ==
    /\ call.op = "construct"
    /\ PathConfigured(call.model_path) /\ call.exists /\ ~call.loads
    /\ ~call.raised
    /\ intent_classifier.model = "None"

\* ---------------------------------------------------------------- privacy
\* C17: privatize_frequency_bands returns a mapping over the same band names
\* as its input with every value >= 0, whatever the privacy level and the
\* noise drawn, and leaves its input mapping as it was
C17_PrivatizeNonNegative ==
    call.op = "privatize" =>
        /\ DOMAIN call.result = DOMAIN call.bands
        /\ \A b \in DOMAIN call.result : call.result[b] >= 0
        /\ call.bands_after = call.bands

\* a draw that would have made a band negative was clamped to zero
C17_Witness ==
    /\ call.op = "privatize"
    /\ \E b \in DOMAIN call.bands :
          /\ call.bands[b] + call.noise[b] < 0
          /\ call.result[b] = 0
    /\ \E b \in DOMAIN call.bands : call.noise[b] > 0 /\ call.result[b] > call.bands[b]

\* C18: apply_privacy applied to nonnegative band powers returns a mapping
\* in which every protected value is still >= 0, whatever the noise drawn
C18_ApplyPrivacyNonNegative ==
    (/\ call.op = "apply_privacy"
     /\ \A k \in DOMAIN call.data : IsNumeric(call.data[k]) => call.data[k][2] >= 0)
    => \A k \in DOMAIN call.result : IsNumeric(call.result[k]) => call.result[k][2] >= 0

\* ----------------------------------------------------------- process route
PipelineOrder ==
    <<"clean_signal", "compute_features", "classify", "privatize_frequency_bands",
      "filter_data">>

IsPipelineStage(s) == s # "detect_threats"

\* C13: a successful process call runs conditioning, feature extraction,
\* classification of the un-noised features, privacy noise and permission
\* filtering in that order, with threat detection evaluated for the
\* requesting app, and its result carries the permission-filtered data and
\* the alerts raised in this invocation
C13_ProcessStages ==
    (call.op = "process" /\ call.status = 200) =>
        /\ SelectSeq(call.stages, IsPipelineStage) = PipelineOrder
        /\ InList("detect_threats", call.stages)
        /\ call.result.intent_classification \in ClassifyOutcomes(call.features)
        /\ "permission_filtered_data" \in DOMAIN call.result

InvalidCall ==
    \/ call.op = "process" /\ (~validate_channels(call.channels) \/ ~EqualLengths(call.channels))
    \/ call.op = "set_level" /\ (call.level < 0 \/ call.level > 10)

\* C14: an empty channel map, channels of unequal length and a privacy
\* level outside [0,1] are each rejected with a validation error before any
\* pipeline stage runs, and the permission table, the audit log, the threat
\* log and the privacy state stay as they were
C14_InvalidRejectedBeforePipeline ==
    [][(call' # call /\ InvalidCall') =>
          /\ call'.status = 422
          /\ call'.op = "process" => call'.stages = <<>>
          /\ UNCHANGED <<permissions, audit_log, threat_log, current_privacy_state>>]_vars

\* ------------------------------------------------------- record lifetime
\* C19: a permission record, once created, exists in every later state:
\* revoke and revoke-all keep it (with an empty granted list when nothing is
\* left), and only a grant (a request or a startup seed) creates a record
C19_RecordsPersist ==
    [][/\ DOMAIN permissions \subseteq DOMAIN permissions'
       /\ DOMAIN permissions' # DOMAIN permissions => call'.op \in {"grant", "startup"}]_vars

\* revoke-all took the last permissions of an app and its record is still there
C19_Witness ==
    /\ call.op = "revoke_all"
    /\ HasRecord(call.app_id)
    /\ permissions[call.app_id].granted = <<>>
    /\ audit_log # <<>>
    /\ LastAudit.action = "revoke" /\ LastAudit.app_id = call.app_id

\* ------------------------------------------------------------ log queries
\* the k most recent entries of a log, oldest first
MostRecent(lst, k) ==
    SubSeq(lst, Len(lst) - Min(k, Len(lst)) + 1, Len(lst))

\* C20: the audit query and the recent-threats query return exactly the
\* min(limit, length) most recent entries of their log, oldest first: never
\* more than limit entries, and none for limit = 0
C20_QueryMostRecent ==
    /\ call.op = "audit" =>
          /\ Len(call.result) = Min(call.limit, Len(audit_log))
          /\ \A i \in 1 .. Len(call.result) :
                LET e == MostRecent(audit_log, call.limit)[i]
                IN  /\ call.result[i].app_id = e.app_id
                    /\ call.result[i].action = e.action
                    /\ call.result[i].permission_type = e.permission
    /\ call.op = "recent_threats" =>
          /\ Len(call.result) = Min(call.limit, Len(threat_log))
          /\ \A i \in 1 .. Len(call.result) :
                call.result[i].threat_id = MostRecent(threat_log, call.limit)[i].threat_id

\* ------------------------------------------------------- permission decoding
\* C21: a stored permission string outside the enumeration is never reported
\* as an enumerated permission: every permission listed for an app passes
\* check_permission, and an audit entry with such a string is not reported
\* with an enumerated permission type
C21_NoPhantomPermission ==
    /\ call.op = "list" =>
          \A a \in DOMAIN call.result :
             \A i \in 1 .. Len(call.result[a].requested_permissions) :
                check_permission(permissions, a, call.result[a].requested_permissions[i])
    /\ call.op = "audit" =>
          \A i \in 1 .. Len(call.result) :
             LET stored == LastEntries(audit_log, call.limit)[i].permission
             IN  stored \notin PermissionType =>
                    call.result[i].permission_type \notin PermissionType

\* the reason tags of the seven rules in evaluation order, with their conditions
ReasonTable(f) ==
    << [tag |-> "strong beta (focus)", matched |-> f.beta > 15],
       [tag |-> "high beta/alpha ratio", matched |-> 2 * f.beta > 3 * f.alpha],
       [tag |-> "controlled gamma", matched |-> 10 < f.gamma /\ f.gamma < 30],
       [tag |-> "elevated theta (emotional)", matched |-> f.theta > 20],
       [tag |-> "high gamma (stress)", matched |-> f.gamma > 40],
       [tag |-> "high theta/alpha", matched |-> f.theta > f.alpha],
       [tag |-> "low beta", matched |-> f.beta < 10] >>

IsMatched(r) == r.matched

ExpectedTags(f) ==
    LET m == SelectSeq(ReasonTable(f), IsMatched)
    IN  [i \in 1 .. Min(2, Len(m)) |-> m[i].tag]

\* C22: the explanation of the rule-based classifier lists the first two
\* matched reason tags (all of them when fewer matched) in rule evaluation
\* order, whichever intent is returned
C22_ExplanationFirstTwo ==
    RuleCall => call.result.explanation[2] = ExpectedTags(call.features)

\* the same statement for the two intents whose explanation carries reasons
ExplanationFirstTwoNonNeutral ==
    (RuleCall /\ call.result.intent # "neutral")
        => call.result.explanation[2] = ExpectedTags(call.features)

\* -------------------------------------------------------- ownership frame
GateWrites == {"grant", "revoke", "revoke_all"}
DetectorWrites == {"detect", "simulate"}
Reads == {"check", "filter", "list", "audit", "recent_threats", "stats"}

\* C23: grant, revoke, revoke-all, check and filter leave the threat log
\* unchanged; detect and simulate leave the permission table and the audit
\* log unchanged; check, filter, list, the audit query, the recent-threats
\* query and the statistics change none of the three
C23_OwnershipFrame ==
    [][/\ call'.op \in GateWrites \cup {"check", "filter"} => threat_log' = threat_log
       /\ call'.op \in DetectorWrites => UNCHANGED <<permissions, audit_log>>
       /\ call'.op \in Reads => UNCHANGED <<permissions, audit_log, threat_log>>]_vars

\* a gate write made while the threat log holds alerts, the audit log
\* holding the entry it wrote
C23_Witness ==
    /\ call.op = "revoke"
    /\ threat_log # <<>>
    /\ audit_log # <<>>
    /\ LastAudit.action = "revoke"

\* C24: mask_sensitive_data with a threshold below 0.3 returns a copy of the
\* data with theta and gamma (where present) exactly 0, every other field
\* as it was and no field added; with a threshold of 0.3 or more it returns
\* a copy equal to the data; the input mapping is never modified
C24_MaskSensitive ==
    call.op = "mask" =>
        /\ DOMAIN call.result = DOMAIN call.data
        /\ call.data_after = call.data
        /\ call.threshold < 3 =>
              \A k \in DOMAIN call.data :
                 call.result[k] = IF k \in {"theta", "gamma"} THEN <<"num", 0>>
                                  ELSE call.data[k]
        /\ call.threshold >= 3 => call.result = call.data

\* a call at exactly 0.3 on data holding theta: nothing was masked
C24_BoundaryReached ==
    /\ call.op = "mask"
    /\ call.threshold = 3
    /\ "theta" \in DOMAIN call.data
    /\ call.result["theta"] = <<"num", 3>>

\* a call below 0.3 that masked theta and gamma and kept alpha
C24_Witness ==
    /\ call.op = "mask"
    /\ call.threshold < 3
    /\ {"theta", "gamma", "alpha"} \subseteq DOMAIN call.data
    /\ call.result["theta"] = <<"num", 0>> /\ call.result["gamma"] = <<"num", 0>>
    /\ call.result["alpha"] = <<"num", 3>>

\* a / b < c / d for fractions with positive denominators
FractionLess(x, y) == x.num * y.den < y.num * x.den

\* C25: the effective epsilon of privatize_frequency_bands is
\* epsilon * (privacy_level + 0.1): strictly positive, and strictly larger at
\* a higher privacy level, so the noise scale 1/effective_epsilon is finite
\* and strictly smaller at a higher privacy level
C25_EpsilonMonotone ==
    [][call'.op = "privatize" =>
          /\ call'.effective_epsilon = call'.epsilon * (call'.privacy_level + 1)
          /\ call'.effective_epsilon > 0
          /\ call'.scale.den > 0
          /\ call'.scale.num * call'.effective_epsilon = 100 * call'.scale.den
          /\ (/\ call.op = "privatize"
              /\ call.epsilon = call'.epsilon
              /\ call.privacy_level < call'.privacy_level)
             => /\ call.effective_epsilon < call'.effective_epsilon
                /\ FractionLess(call'.scale, call.scale)]_vars

\* a call at privacy level 1.0 with the configured epsilon: effective epsilon 1.1
C25_Witness ==
    /\ call.op = "privatize"
    /\ call.privacy_level = 10
    /\ call.epsilon = DEFAULT_EPSILON
    /\ call.effective_epsilon = 110
    /\ call.scale = [num |-> 100, den |-> 110]

\* ------------------------------------------------------------ audit replay
\* positions of the audit entries for one app and permission, in log order
PairEntries(a, p) ==
    SelectSeq([i \in 1 .. Len(audit_log) |-> i],
              LAMBDA i : audit_log[i].app_id = a /\ audit_log[i].permission = p)

KnownApps == (DOMAIN permissions) \cup { audit_log[i].app_id : i \in 1 .. Len(audit_log) }

\* C26: the permission table is what replaying the audit log yields: a
\* permission is in an app's granted list iff the latest audit entry for the
\* pair is a grant; the entries of a pair alternate grant, revoke, grant, ...;
\* and no granted list holds a permission twice
C26_TableReplaysLog ==
    \A a \in KnownApps, p \in PermissionType :
        LET e == PairEntries(a, p)
        IN  /\ (p \in GrantedSet(a))
                  <=> (e # <<>> /\ audit_log[e[Len(e)]].action = "grant")
            /\ \A k \in 1 .. Len(e) :
                  audit_log[e[k]].action = IF k % 2 = 1 THEN "grant" ELSE "revoke"
            /\ a \in DOMAIN permissions => NoDuplicates(permissions[a].granted)

\* the seeded motor_intent grant of vr-arena was revoked and granted again
C26_Witness ==
    /\ started
    /\ Len(PairEntries("vr-arena", "motor_intent")) = 3
    /\ "motor_intent" \in GrantedSet("vr-arena")

\* C27: filter() for an app whose record exists with an empty granted list
\* returns the empty mapping for every data input and intent, without the
\* motor_intent field an app with no record receives
C27_EmptyRecordGetsNothing ==
    (/\ call.op = "filter"
     /\ HasRecord(call.app_id)
     /\ permissions[call.app_id].granted = <<>>)
    => DOMAIN call.result = {}

\* every permission of the app was revoked, then it filtered a full data
\* mapping with an intentional signal
C27_Witness ==
    /\ call.op = "filter"
    /\ HasRecord(call.app_id)
    /\ permissions[call.app_id].granted = <<>>
    /\ AuditCount(audit_log, call.app_id, "revoke", "motor_intent") = 1
    /\ DOMAIN call.data = DataFields
    /\ call.intent = "intentional"
    /\ call.result = EmptyDict

\* C28: revoke-all on an app with a record leaves the record and its name
\* in place with an empty granted list, appends one revoke entry per
\* permission held before the call, in the order of the granted list, and
\* leaves other apps unchanged; without a record nothing changes
C28_RevokeAll ==
    [][call'.op = "revoke_all" =>
          LET a == call'.app_id
          IN  IF a \in DOMAIN permissions
              THEN LET held == permissions[a].granted
                   IN  /\ a \in DOMAIN permissions'
                       /\ permissions'[a].granted = <<>>
                       /\ permissions'[a].app_name = permissions[a].app_name
                       /\ OthersUnchanged(permissions, permissions', a)
                       /\ Len(audit_log') = Len(audit_log) + Len(held)
                       /\ IsPrefix(audit_log, audit_log')
                       /\ \A k \in 1 .. Len(held) :
                             LET e == audit_log'[Len(audit_log) + k]
                             IN  /\ e.app_id = a
                                 /\ e.app_name = permissions[a].app_name
                                 /\ e.action = "revoke"
                                 /\ e.permission = held[k]
              ELSE UNCHANGED <<permissions, audit_log>>]_vars

\* revoke-all took two permissions from an app: its list is empty and the
\* log ends with their two revoke entries
C28_Witness ==
    /\ call.op = "revoke_all"
    /\ HasRecord(call.app_id)
    /\ permissions[call.app_id].granted = <<>>
    /\ Len(audit_log) >= 4
    /\ LET n == Len(audit_log)
       IN  /\ audit_log[n].action = "revoke" /\ audit_log[n].app_id = call.app_id
           /\ audit_log[n - 1].action = "revoke" /\ audit_log[n - 1].app_id = call.app_id
           /\ audit_log[n - 1].permission # audit_log[n].permission

\* C29: simulate appends the same two alerts whatever the threat type: one
\* high excessive_permissions and one medium data_harvesting alert for the
\* app, so the threat log grows by exactly 2 per call
C29_SimulateFixedAlerts ==
    [][call'.op = "simulate" =>
          LET n == Len(threat_log)
          IN  /\ Len(threat_log') = n + 2
              /\ IsPrefix(threat_log, threat_log')
              /\ threat_log'[n + 1].threat_type = "excessive_permissions"
              /\ threat_log'[n + 1].level = "high"
              /\ threat_log'[n + 1].app_id = call'.app_id
              /\ threat_log'[n + 2].threat_type = "data_harvesting"
              /\ threat_log'[n + 2].level = "medium"
              /\ threat_log'[n + 2].app_id = call'.app_id]_vars

\* an emotional_surveillance simulation left the two fixed alerts and no
\* emotional_surveillance alert
C29_Witness ==
    /\ call.op = "simulate"
    /\ call.threat_type = "emotional_surveillance"
    /\ Len(threat_log) >= 2
    /\ threat_log[Len(threat_log) - 1].threat_type = "excessive_permissions"
    /\ threat_log[Len(threat_log)].threat_type = "data_harvesting"
    /\ \A i \in 1 .. Len(threat_log) : threat_log[i].threat_type # "emotional_surveillance"

\* ------------------------------------------------------------ privacy level
\* C30: every process call uses the configured default privacy level, so
\* its noise scale is the same before and after any set-level calls; a
\* set-level call updates only the reported state: the level, epsilon =
\* default epsilon * (level + 0.1), and the same delta
C30_ProcessIgnoresSetLevel ==
    [][/\ (call'.op = "process" /\ call'.status = 200) =>
             /\ call'.privacy_level = DEFAULT_PRIVACY_LEVEL
             /\ call'.scale = [num |-> 100,
                               den |-> DEFAULT_EPSILON * (DEFAULT_PRIVACY_LEVEL + 1)]
             /\ UNCHANGED current_privacy_state
       /\ (call'.op = "set_level" /\ call'.status = 200) =>
             /\ current_privacy_state'.level = call'.level
             /\ 10 * current_privacy_state'.epsilon = DEFAULT_EPSILON * (call'.level + 1)
             /\ current_privacy_state'.delta = current_privacy_state.delta
             /\ UNCHANGED <<permissions, audit_log, threat_log, intent_classifier>>]_vars

\* a process call made after the level was set to 1.0 still used 0.5
C30_Witness ==
    /\ call.op = "process"
    /\ call.status = 200
    /\ current_privacy_state.level = 10
    /\ current_privacy_state.epsilon = 11
    /\ call.privacy_level = 5

====
